---- MODULE Spec2Model ----
(***************************************************************************)
(* The turn orchestration of the adventure engine (src/App.tsx) and the    *)
(* service wrappers it calls (src/unnamed/part_001, the geminiService      *)
(* module), as a state machine.                                            *)
(*                                                                         *)
(* gameState is the React state of App.  A handler does not read that      *)
(* state: it reads the gameState captured by the render that created the   *)
(* handler (`rendered`), and an async handler keeps reading that captured  *)
(* value after every await (`closure` of a turn).  Only the functional     *)
(* updates setGameState(prev => ...) see the current state.                *)
(*                                                                         *)
(* Every await of a service is a suspension point: a turn stops there      *)
(* (its pc) and the action that resolves the call runs the code up to the  *)
(* next await or to the end of the handler.                                *)
(***************************************************************************)
EXTENDS Integers, Sequences, FiniteSets, TLC

VARIABLES
  gameState,  \* the state of useState<GameState>
  rendered,   \* the gameState that the handlers of the latest render captured
  turns,      \* the locals of the handler invocations, in order of invocation
  started,    \* how many invocations have passed their guard
  ignored,    \* the latest executeCommand returned at its guard
  isMuted,    \* the state of useState<boolean> behind the AUDIO button
  narrations, \* the texts of the playAudio calls that await generateNarratorAudio
  customInput, \* the state of useState<string> behind the command form, in pieces
  dropped     \* the latest submit of the command form did not call executeCommand

vars == <<gameState, rendered, turns, started, ignored, isMuted, narrations,
          customInput, dropped>>

-----------------------------------------------------------------------------
(* Bounds *)

\* accepted invocations of handleStartGame / executeCommand in one run
MaxTurns == 3

-----------------------------------------------------------------------------
(* JavaScript values *)

\* a property that is missing from an object reads as undefined
Undefined == "undefined"
\* null: currentSceneId and imageUrl before the first scene, a failed image
Null == "null"

\* the falsy strings, undefined and null
Truthy(v) == v \notin {Undefined, Null, ""}

\* response.f for a string property
Field(r, f) == IF f \in DOMAIN r THEN r[f] ELSE Undefined

\* truthiness of response.f for a boolean property
Flag(r, f) == f \in DOMAIN r /\ r[f]

\* obj[key] = value on a copy of obj
Put(obj, key, value) ==
  [k \in DOMAIN obj \cup {key} |-> IF k = key THEN value ELSE obj[k]]

NoDuplicates(s) == \A i, j \in 1..Len(s) : s[i] = s[j] => i = j

Range(s) == {s[i] : i \in 1..Len(s)}

-----------------------------------------------------------------------------
(* Inputs *)

THEME == "haunted lighthouse"

Commands == {"Look at surroundings"}

SceneIds == {"lighthouse_base", "lighthouse_top"}

NARRATIVE == "You arrive."

\* the description the narrative model issues for a scene
DescriptionOf(sceneId) == "view of " \o sceneId

InteractableLists == {<<>>, <<"lantern">>}

Items == {"lantern"}

\* the optional properties of a response: each may be absent
OptionalParts ==
  {[k \in {} |-> TRUE]}
    \cup {[inventory_add |-> i] : i \in Items}
    \cup {[inventory_remove |-> i] : i \in Items}
    \cup {[is_game_over |-> TRUE]}

\* a response that matches responseSchema and names its scene with the empty string
BlankScene ==
  [narrative |-> NARRATIVE, scene_id |-> "", visual_description |-> DescriptionOf(""),
   trigger_visual_update |-> TRUE, interactables |-> <<>>]

\* responses that match responseSchema
WellFormed ==
  {[narrative |-> NARRATIVE, scene_id |-> s, visual_description |-> DescriptionOf(s),
    trigger_visual_update |-> t, interactables |-> xs] @@ opt :
      s \in SceneIds, t \in BOOLEAN, xs \in InteractableLists, opt \in OptionalParts}
    \cup {BlankScene}

\* a JSON object that parses but lacks a required property
ShapeViolating ==
  {[narrative |-> NARRATIVE, scene_id |-> "lighthouse_base",
    visual_description |-> DescriptionOf("lighthouse_base"),
    trigger_visual_update |-> TRUE]}

\* what ai.models.generateContent can do for a narrative request
NarrativeOutcomes ==
  {[kind |-> "throw"], [kind |-> "noText"], [kind |-> "unparseable"]}
    \cup {[kind |-> "json", value |-> v] : v \in WellFormed \cup ShapeViolating}

\* what ai.models.generateContent can do for an image request
ImageOutcomes == {"inlineData", "noInlineData", "throw"}

\* the elements of a parsed "box" array: a JSON number n, or the JSON null
Number(n) == [number |-> n]
JsonNull == [null |-> TRUE]

Box(ymin, xmin, ymax, xmax) == <<Number(ymin), Number(xmin), Number(ymax), Number(xmax)>>

\* entries of the "hotspots" array of a detection response
WellFormedEntry == [name |-> "lantern", box |-> Box(10, 10, 20, 20)]
NoBoxEntry == [name |-> "lamp"]
ShortBoxEntry == [name |-> "door", box |-> <<Number(1), Number(2), Number(3)>>]
NoNameEntry == [box |-> Box(30, 30, 40, 40)]
\* four numbers: ymin above ymax, xmax beyond 100
InvertedBoxEntry == [name |-> "rope", box |-> Box(80, 10, 20, 120)]
\* four elements, one of them not a number
NullInBoxEntry == [name |-> "hatch", box |-> <<Number(50), Number(50), Number(60), JsonNull>>]

\* what ai.models.generateContent can do for a detection request
DetectionOutcomes ==
  {[kind |-> "throw"], [kind |-> "noText"], [kind |-> "unparseable"],
   [kind |-> "json", value |-> [other |-> TRUE]],
   [kind |-> "json", value |-> [hotspots |-> <<WellFormedEntry>>]],
   [kind |-> "json", value |-> [hotspots |->
      <<NoBoxEntry, WellFormedEntry, ShortBoxEntry, NoNameEntry, NullInBoxEntry,
        InvertedBoxEntry>>]]}

\* a string as the sequence of its pieces: a piece is a blank or a run of
\* characters without white space
Blank == " "

\* what the user types into the command form
CustomInputs == {<<>>, <<Blank, Blank>>, <<"Look at surroundings">>}

\* what ai.models.generateContent can do for a speech request
SpeechOutcomes == {"inlineData", "noInlineData", "throw"}

-----------------------------------------------------------------------------
(* services/geminiService *)

RequiredFields ==
  {"narrative", "scene_id", "visual_description", "trigger_visual_update", "interactables"}

StartFallback ==
  [narrative |-> "The system is rebooting...", scene_id |-> "error_room",
   visual_description |-> "Static screen", trigger_visual_update |-> TRUE,
   interactables |-> <<>>]

ActionFallback(currentSceneId) ==
  [narrative |-> "I didn't quite get that.",
   scene_id |-> IF Truthy(currentSceneId) THEN currentSceneId ELSE "unknown",
   visual_description |-> "No change.", trigger_visual_update |-> FALSE,
   interactables |-> <<>>]

\* JSON.parse(text) as AdventureResponse: the parsed value is returned as it is
generateAdventureStart(outcome) ==
  IF outcome.kind = "json" THEN outcome.value ELSE StartFallback

processGameAction(outcome, currentSceneId) ==
  IF outcome.kind = "json" THEN outcome.value ELSE ActionFallback(currentSceneId)

generateSceneImage(outcome, visualDescription) ==
  IF outcome = "inlineData" THEN "data:image " \o visualDescription ELSE Null

\* h && h.name && Array.isArray(h.box) && h.box.length === 4
KeepsHotspot(h) ==
  /\ "name" \in DOMAIN h
  /\ Truthy(h.name)
  /\ "box" \in DOMAIN h
  /\ Len(h.box) = 4

detectSceneHotspots(outcome) ==
  IF outcome.kind = "json" /\ "hotspots" \in DOMAIN outcome.value
  THEN SelectSeq(outcome.value.hotspots, KeepsHotspot)
  ELSE <<>>

\* the base64 audio of the response, or null
generateNarratorAudio(outcome, text) ==
  IF outcome = "inlineData" THEN "audio " \o text ELSE Null

-----------------------------------------------------------------------------
(* App *)

RECURSIVE Text(_)
\* the string of the pieces
Text(pieces) ==
  IF pieces = <<>> THEN "" ELSE Head(pieces) \o Text(Tail(pieces))

RECURSIVE TrimStart(_)
TrimStart(pieces) ==
  IF pieces # <<>> /\ Head(pieces) = Blank THEN TrimStart(Tail(pieces)) ELSE pieces

RECURSIVE TrimEnd(_)
TrimEnd(pieces) ==
  IF pieces # <<>> /\ pieces[Len(pieces)] = Blank
  THEN TrimEnd(SubSeq(pieces, 1, Len(pieces) - 1))
  ELSE pieces

TrimNothing(pieces) == pieces

\* String.prototype.trim
Trim(pieces) == TrimEnd(TrimStart(pieces))

INITIAL_STATE ==
  [isPlaying |-> FALSE, currentSceneId |-> Null, inventory |-> <<>>, history |-> <<>>,
   imageUrl |-> Null, hotspots |-> <<>>, isLoading |-> FALSE, loadingMessage |-> "",
   gameOver |-> FALSE, theme |-> "", sceneCache |-> [k \in {} |-> TRUE]]

LogEntry(type, text) == [type |-> type, text |-> text]

Call(service, argument) == [service |-> service, argument |-> argument]

NoResponse == [pending |-> TRUE]
NoVisual == [image |-> Null, hotspots |-> <<>>]

\* the request of handleVisualUpdate to detectSceneHotspots
DetectionCall(image, items) ==
  [service |-> "hotspots", argument |-> image, items |-> items]

\* the locals of one invocation of handleStartGame or executeCommand: closure is
\* the gameState its code reads and muted the isMuted its playAudio reads;
\* before (the state at the invocation), calls (the service requests it has
\* made) and visualUpdates (its calls of handleVisualUpdate) record what it did
NewTurn(kind, fullCommand, newHistory) ==
  [kind |-> kind, pc |-> "awaitNarrative", closure |-> rendered, muted |-> isMuted,
   before |-> gameState, fullCommand |-> fullCommand, newHistory |-> newHistory,
   response |-> NoResponse, newInventory |-> <<>>, needsUpdate |-> FALSE,
   triggerUpdate |-> FALSE, visualUpdates |-> 0, image |-> Null, visual |-> NoVisual,
   calls |-> <<Call("narrative", fullCommand)>>]

\* awaiting a service
InFlight(turn) == turn.pc \in {"awaitNarrative", "awaitImage", "awaitHotspots"}
\* the promise of the handler has not been fulfilled: it is pending or rejected
Unsettled(turn) == turn.pc # "done"

Invoke(turn) == Append(turns, turn)

SceneData(response, imageUrl, hotspots) ==
  LET core == [id |-> Field(response, "scene_id"), imageUrl |-> imageUrl,
               hotspots |-> hotspots,
               visualDescription |-> Field(response, "visual_description")]
  IN  IF "interactables" \in DOMAIN response
      THEN core @@ [interactables |-> response.interactables]
      ELSE core

CacheHitNever(sceneCache, sceneId, triggerUpdate) == FALSE

CacheHitDespiteTrigger(sceneCache, sceneId, triggerUpdate) ==
  sceneId \in DOMAIN sceneCache

\* 1. Check Cache first: !triggerUpdate && gameState.sceneCache[sceneId]
CacheHit(sceneCache, sceneId, triggerUpdate) ==
  ~triggerUpdate /\ sceneId \in DOMAIN sceneCache

NeedsUpdateOnTriggerOnly(response, currentSceneId) ==
  Flag(response, "trigger_visual_update")

\* needsUpdate of executeCommand
NeedsUpdate(response, currentSceneId) ==
  Field(response, "scene_id") # currentSceneId \/ Flag(response, "trigger_visual_update")

NewInventoryAlwaysPushes(inventory, response) ==
  LET add == Field(response, "inventory_add")
      remove == Field(response, "inventory_remove")
      pushed == IF Truthy(add) THEN Append(inventory, add) ELSE inventory
      Stays(i) == i # remove
  IN  IF Truthy(remove) THEN SelectSeq(pushed, Stays) ELSE pushed

\* newInventory of executeCommand
NewInventory(inventory, response) ==
  LET add == Field(response, "inventory_add")
      remove == Field(response, "inventory_remove")
      pushed == IF Truthy(add) /\ add \notin Range(inventory)
                THEN Append(inventory, add) ELSE inventory
      Stays(i) == i # remove
  IN  IF Truthy(remove) THEN SelectSeq(pushed, Stays) ELSE pushed

StartSceneCacheEmpty(response, visual) == [k \in {} |-> TRUE]

\* sceneCache: { [response.scene_id]: {...} } of handleStartGame
StartSceneCache(response, visual) ==
  Put([k \in {} |-> TRUE], Field(response, "scene_id"),
      SceneData(response,
                IF Truthy(visual.image) THEN visual.image ELSE "",
                visual.hotspots))

\* the final setGameState of handleStartGame
StartCommit(prev, turn, visual) ==
  LET response == turn.response
      add == Field(response, "inventory_add")
      sceneId == Field(response, "scene_id")
  IN  [prev EXCEPT
         !.isLoading = FALSE,
         !.currentSceneId = sceneId,
         !.imageUrl = visual.image,
         !.hotspots = visual.hotspots,
         !.history = <<LogEntry("narrator", Field(response, "narrative"))>>,
         !.inventory = IF Truthy(add) THEN <<add>> ELSE <<>>,
         !.sceneCache = StartSceneCache(response, visual)]

NewImageOfVisual(closure, visual, updated) ==
  IF updated THEN visual.image ELSE closure.imageUrl

\* newImage of executeCommand; updated: handleVisualUpdate was awaited
NewImage(closure, visual, updated) ==
  IF updated /\ Truthy(visual.image) THEN visual.image ELSE closure.imageUrl

NewHotspotsOfVisual(closure, visual, updated) == visual.hotspots

\* newHotspots of executeCommand
NewHotspots(closure, visual, updated) ==
  IF updated THEN visual.hotspots ELSE closure.hotspots

NextCacheMergesHotspots(sceneCache, response, newImage, newHotspots) ==
  LET sceneId == Field(response, "scene_id")
      old == IF sceneId \in DOMAIN sceneCache THEN sceneCache[sceneId].hotspots ELSE <<>>
  IN  IF Truthy(newImage)
      THEN Put(sceneCache, sceneId, SceneData(response, newImage, old \o newHotspots))
      ELSE sceneCache

NextCacheOfNewScenesOnly(sceneCache, response, newImage, newHotspots) ==
  IF Truthy(newImage) /\ Field(response, "scene_id") \notin DOMAIN sceneCache
  THEN Put(sceneCache, Field(response, "scene_id"),
           SceneData(response, newImage, newHotspots))
  ELSE sceneCache

NextCacheOfOneScene(sceneCache, response, newImage, newHotspots) ==
  IF Truthy(newImage)
  THEN Put([k \in {} |-> TRUE], Field(response, "scene_id"),
           SceneData(response, newImage, newHotspots))
  ELSE sceneCache

\* nextCache of the final setGameState of executeCommand
NextCache(sceneCache, response, newImage, newHotspots) ==
  IF Truthy(newImage)
  THEN Put(sceneCache, Field(response, "scene_id"),
           SceneData(response, newImage, newHotspots))
  ELSE sceneCache

\* the final setGameState of executeCommand
CommandCommit(prev, turn, visual, updated) ==
  LET response == turn.response
      sceneId == Field(response, "scene_id")
      newImage == NewImage(turn.closure, visual, updated)
      newHotspots == NewHotspots(turn.closure, visual, updated)
      nextCache == NextCache(prev.sceneCache, response, newImage, newHotspots)
  IN  [prev EXCEPT
         !.isLoading = FALSE,
         !.history = Append(turn.newHistory,
                            LogEntry("narrator", Field(response, "narrative"))),
         !.inventory = turn.newInventory,
         !.currentSceneId = sceneId,
         !.imageUrl = newImage,
         !.hotspots = newHotspots,
         !.gameOver = Flag(response, "is_game_over"),
         !.sceneCache = nextCache]

Commit(prev, turn, visual, updated) ==
  IF turn.kind = "start"
  THEN StartCommit(prev, turn, visual)
  ELSE CommandCommit(prev, turn, visual, updated)

\* playAudio(text) up to its await, called with the isMuted of the render that
\* created the handler: the texts that await generateNarratorAudio after it
playAudio(pending, muted, text) ==
  IF muted THEN pending ELSE Append(pending, text)

\* the handler has made its final setGameState and has called playAudio
Returned(turn) ==
  [turn EXCEPT !.pc = "done",
               !.calls = IF turn.muted THEN @
                         ELSE Append(@, Call("speech", Field(turn.response, "narrative")))]

\* playAudio(response.narrative) at the end of handleStartGame and executeCommand
Narrate(turn) ==
  narrations' = playAudio(narrations, turn.muted, Field(turn.response, "narrative"))

\* setCustomInput("") at the end of executeCommand
ClearForm(turn) ==
  customInput' = IF turn.kind = "command" THEN <<>> ELSE customInput

Init ==
  /\ gameState = INITIAL_STATE
  /\ rendered = INITIAL_STATE
  /\ turns = <<>>
  /\ started = 0
  /\ ignored = FALSE
  /\ isMuted = FALSE
  /\ narrations = <<>>
  /\ customInput = <<>>
  /\ dropped = FALSE

\* React renders App again: the handlers on the page now close over gameState.
\* The locals of the handlers that have returned are dropped here.
Render ==
  /\ rendered # gameState
  /\ rendered' = gameState
  /\ turns' = SelectSeq(turns, Unsettled)
  /\ ignored' = FALSE
  /\ UNCHANGED <<gameState, started, isMuted, narrations, customInput, dropped>>

\* handleStartGame up to its first await
handleStartGame(theme) ==
  /\ started < MaxTurns
  /\ gameState' = [gameState EXCEPT !.isPlaying = TRUE, !.isLoading = TRUE,
                                    !.loadingMessage = "Initializing World...",
                                    !.theme = theme]
  /\ turns' = Invoke(NewTurn("start", theme, <<>>))
  /\ started' = started + 1
  /\ ignored' = FALSE

RejectsOnLoadingOnly(state) == state.isLoading

RejectsOnGameOverOnly(state) == state.gameOver

\* if (gameState.isLoading || gameState.gameOver) return;
Rejects(state) == state.isLoading \/ state.gameOver

NewHistoryCommandOnly(history, fullCommand) ==
  <<LogEntry("command", "> " \o fullCommand)>>

\* newHistory of executeCommand
NewHistory(history, fullCommand) ==
  Append(history, LogEntry("command", "> " \o fullCommand))

\* executeCommand up to its first await
executeCommand(fullCommand) ==
  IF Rejects(rendered)
  THEN /\ ignored' = TRUE
       /\ UNCHANGED <<gameState, turns, started>>
  ELSE LET newHistory == NewHistory(rendered.history, fullCommand)
       IN  /\ started < MaxTurns
           /\ gameState' = [gameState EXCEPT !.history = newHistory,
                                             !.isLoading = TRUE,
                                             !.loadingMessage = "Thinking..."]
           /\ turns' = Invoke(NewTurn("command", fullCommand, newHistory))
           /\ started' = started + 1
           /\ ignored' = FALSE

\* the start form is submitted with a theme; React renders before the next event
StartGameSubmit ==
  /\ ~rendered.isPlaying
  /\ handleStartGame(THEME)
  /\ rendered' = gameState'
  /\ UNCHANGED <<isMuted, narrations, customInput, dropped>>

\* a click or a submit of the main layout reaches executeCommand; the state it
\* sets in the event handler is rendered before the next event
CommandEvent ==
  /\ rendered.isPlaying
  /\ \E fullCommand \in Commands : executeCommand(fullCommand)
  /\ rendered' = IF gameState' # gameState THEN gameState' ELSE rendered
  /\ UNCHANGED <<isMuted, narrations, customInput, dropped>>

\* the continuation of a turn after `await generateAdventureStart / processGameAction`
NarrativeResolves(i, outcome) ==
  LET turn == turns[i]
      response == IF turn.kind = "start"
                  THEN generateAdventureStart(outcome)
                  ELSE processGameAction(outcome, turn.closure.currentSceneId)
      sceneId == Field(response, "scene_id")
      triggerUpdate == turn.kind = "start" \/ Flag(response, "trigger_visual_update")
      needsUpdate == turn.kind = "start"
                       \/ NeedsUpdate(response, turn.closure.currentSceneId)
      hit == CacheHit(turn.closure.sceneCache, sceneId, triggerUpdate)
      cached == turn.closure.sceneCache[sceneId]
      got == [turn EXCEPT !.response = response,
                          !.newInventory = NewInventory(turn.closure.inventory, response),
                          !.needsUpdate = needsUpdate,
                          !.triggerUpdate = triggerUpdate]
  IN  /\ turn.pc = "awaitNarrative"
      /\ IF ~needsUpdate
         THEN /\ gameState' = Commit(gameState, got, NoVisual, FALSE)
              /\ turns' = [turns EXCEPT ![i] = Returned(got)]
              /\ Narrate(got) /\ ClearForm(got)
         ELSE IF hit
         THEN LET visual == [image |-> cached.imageUrl, hotspots |-> cached.hotspots]
              IN  /\ gameState' = Commit(gameState, got, visual, TRUE)
                  /\ turns' = [turns EXCEPT ![i] =
                        Returned([got EXCEPT !.visualUpdates = 1, !.visual = visual])]
                  /\ Narrate(got) /\ ClearForm(got)
         ELSE /\ gameState' = [gameState EXCEPT !.loadingMessage = "Rendering Scene..."]
              /\ turns' = [turns EXCEPT ![i] =
                    [got EXCEPT !.pc = "awaitImage", !.visualUpdates = 1,
                                !.calls = Append(@, Call("image",
                                             Field(response, "visual_description")))]]
              /\ UNCHANGED <<narrations, customInput>>
      /\ UNCHANGED <<rendered, started, ignored, isMuted, dropped>>

DetectsAlways(interactables) == TRUE

\* if (interactables.length > 0)
Detects(interactables) == Len(interactables) > 0

\* the continuation after `await generateSceneImage`
ImageResolves(i, outcome) ==
  LET turn == turns[i]
      response == turn.response
      image == generateSceneImage(outcome, Field(response, "visual_description"))
      failed == [image |-> Null, hotspots |-> <<>>]
      bare == [image |-> image, hotspots |-> <<>>]
  IN  /\ turn.pc = "awaitImage"
      /\ IF ~Truthy(image)
         THEN /\ gameState' = Commit(gameState, turn, failed, TRUE)
              /\ turns' = [turns EXCEPT ![i] = Returned([turn EXCEPT !.visual = failed])]
              /\ Narrate(turn) /\ ClearForm(turn)
         ELSE IF "interactables" \notin DOMAIN response
         THEN \* interactables.length of undefined: the handler's promise rejects
              /\ turns' = [turns EXCEPT ![i] = [turn EXCEPT !.pc = "crashed",
                                                            !.image = image]]
              /\ UNCHANGED <<gameState, narrations, customInput>>
         ELSE IF Detects(response.interactables)
         THEN /\ gameState' = [gameState EXCEPT !.loadingMessage = "Analyzing Objects..."]
              /\ turns' = [turns EXCEPT ![i] =
                    [turn EXCEPT !.pc = "awaitHotspots", !.image = image,
                                 !.calls = Append(@, DetectionCall(image,
                                                        response.interactables))]]
              /\ UNCHANGED <<narrations, customInput>>
         ELSE /\ gameState' = Commit(gameState, turn, bare, TRUE)
              /\ turns' = [turns EXCEPT ![i] =
                    Returned([turn EXCEPT !.image = image, !.visual = bare])]
              /\ Narrate(turn) /\ ClearForm(turn)
      /\ UNCHANGED <<rendered, started, ignored, isMuted, dropped>>

\* the continuation after `await detectSceneHotspots`
HotspotsResolve(i, outcome) ==
  LET turn == turns[i]
      visual == [image |-> turn.image, hotspots |-> detectSceneHotspots(outcome)]
  IN  /\ turn.pc = "awaitHotspots"
      /\ gameState' = Commit(gameState, turn, visual, TRUE)
      /\ turns' = [turns EXCEPT ![i] = Returned([turn EXCEPT !.visual = visual])]
      /\ Narrate(turn) /\ ClearForm(turn)
      /\ UNCHANGED <<rendered, started, ignored, isMuted, dropped>>

\* the continuation of playAudio after `await generateNarratorAudio`: the audio
\* is decoded and started, or playAudio returns; React state is not touched
SpeechResolves(k, outcome) ==
  LET base64Audio == generateNarratorAudio(outcome, narrations[k])
  IN  /\ narrations' = [j \in 1..(Len(narrations) - 1) |->
                          IF j < k THEN narrations[j] ELSE narrations[j + 1]]
      /\ UNCHANGED <<gameState, rendered, turns, started, ignored, isMuted,
                     customInput, dropped>>

\* the AUDIO button of the main layout: setIsMuted(!isMuted)
ToggleMute ==
  /\ rendered.isPlaying
  /\ isMuted' = ~isMuted
  /\ UNCHANGED <<gameState, rendered, turns, started, ignored, narrations,
                 customInput, dropped>>

NarrativeStep ==
  \E i \in DOMAIN turns : \E outcome \in NarrativeOutcomes : NarrativeResolves(i, outcome)

ImageStep ==
  \E i \in DOMAIN turns : \E outcome \in ImageOutcomes : ImageResolves(i, outcome)

HotspotsStep ==
  \E i \in DOMAIN turns : \E outcome \in DetectionOutcomes : HotspotsResolve(i, outcome)

SpeechStep ==
  \E k \in DOMAIN narrations : \E outcome \in SpeechOutcomes : SpeechResolves(k, outcome)

Next ==
  \/ StartGameSubmit
  \/ CommandEvent
  \/ NarrativeStep
  \/ ImageStep
  \/ HotspotsStep
  \/ Render

\* the runs in which the AUDIO button is left alone and the speech requests of
\* playAudio stay unanswered
Spec == Init /\ [][Next]_vars

\* executeCommand is called again on the handlers of the current render, before
\* React has rendered the state that an earlier call of them has set
DirectCommand ==
  /\ rendered.isPlaying
  /\ \E fullCommand \in Commands : executeCommand(fullCommand)
  /\ UNCHANGED <<rendered, isMuted, narrations, customInput, dropped>>

\* the narrative requests fail, or are answered with the first scene and no
\* optional property
SteadyOutcomes ==
  {o \in NarrativeOutcomes :
     o.kind = "json" =>
       /\ DOMAIN o.value = RequiredFields
       /\ o.value.scene_id = "lighthouse_base"}

SteadyNarrativeStep ==
  \E i \in DOMAIN turns : \E outcome \in SteadyOutcomes : NarrativeResolves(i, outcome)

NextDirect ==
  \/ StartGameSubmit
  \/ CommandEvent
  \/ DirectCommand
  \/ SteadyNarrativeStep
  \/ ImageStep
  \/ HotspotsStep
  \/ Render

\* the runs with direct calls, in a game that stays in its first scene
SpecDirect == Init /\ [][NextDirect]_vars

\* executeCommand is called while the start screen is on the page (no control of
\* that screen calls it: the handler is reached from other code); the state it
\* sets is rendered before the next event
UnstartedCommand ==
  /\ ~rendered.isPlaying
  /\ \E fullCommand \in Commands : executeCommand(fullCommand)
  /\ rendered' = IF gameState' # gameState THEN gameState' ELSE rendered
  /\ UNCHANGED <<isMuted, narrations, customInput, dropped>>

NextUnstarted ==
  \/ UnstartedCommand
  \/ StartGameSubmit
  \/ CommandEvent
  \/ SteadyNarrativeStep
  \/ ImageStep
  \/ HotspotsStep
  \/ Render

\* the runs in which executeCommand is also called before the game has started,
\* in a game that stays in its first scene
SpecUnstarted == Init /\ [][NextUnstarted]_vars

\* onChange of the input of the command form: setCustomInput(e.target.value)
TypeCustomInput ==
  /\ rendered.isPlaying
  /\ \E input \in CustomInputs \ {customInput} : customInput' = input
  /\ dropped' = FALSE
  /\ UNCHANGED <<gameState, rendered, turns, started, ignored, isMuted, narrations>>

\* if (customInput.trim()) executeCommand(customInput)
handleCustomCommandSubmit ==
  IF Truthy(Text(Trim(customInput)))
  THEN /\ executeCommand(Text(customInput))
       /\ dropped' = FALSE
  ELSE /\ dropped' = TRUE
       /\ UNCHANGED <<gameState, turns, started, ignored>>

\* the command form is submitted; the state set in the event handler is
\* rendered before the next event
CustomCommandSubmit ==
  /\ rendered.isPlaying
  /\ handleCustomCommandSubmit
  /\ rendered' = IF gameState' # gameState THEN gameState' ELSE rendered
  /\ UNCHANGED <<isMuted, narrations, customInput>>

NextForm ==
  \/ StartGameSubmit
  \/ CommandEvent
  \/ TypeCustomInput
  \/ CustomCommandSubmit
  \/ SteadyNarrativeStep
  \/ ImageStep
  \/ HotspotsStep
  \/ Render

\* the runs with the command form, in a game that stays in its first scene
SpecForm == Init /\ [][NextForm]_vars

NextAudio ==
  \/ StartGameSubmit
  \/ CommandEvent
  \/ SteadyNarrativeStep
  \/ ImageStep
  \/ HotspotsStep
  \/ SpeechStep
  \/ ToggleMute
  \/ Render

\* the runs with the AUDIO button and the answers to the speech requests, in a
\* game that stays in its first scene
SpecAudio == Init /\ [][NextAudio]_vars

-----------------------------------------------------------------------------
(* Properties *)

\* the turn has its narrative response
Received(turn) == turn.pc # "awaitNarrative"

ImageCalls(turn) ==
  {k \in 1..Len(turn.calls) : turn.calls[k].service = "image"}

MediaCalls(turn) ==
  {k \in 1..Len(turn.calls) : turn.calls[k].service \in {"image", "hotspots"}}

SomeInFlight == \E i \in DOMAIN turns : InFlight(turns[i])

ApologyText == "I didn't quite get that."

\* C1: while a turn is in flight no further invocation is accepted: a later
\* invocation starts no turn (no history entry, no service call, no change
\* of gameState), whenever it comes relative to the renders.
C1_LaterInvocationIsNoOp ==
  [][SomeInFlight => started' = started]_vars

\* C2: a turn that has started can always still commit: whenever isLoading is
\* true some turn is awaiting a service, whose return lets it go on, so
\* isLoading never stays true for ever.
C2_LoadingNeverStuck ==
  gameState.isLoading => SomeInFlight

\* C3: when handleVisualUpdate is called with triggerUpdate false for a scene
\* that has an artifact in sceneCache, the turn makes no image and no detection
\* call and the policy returns exactly the cached imageUrl and hotspots.
C3_CacheReuse ==
  \A i \in DOMAIN turns :
    LET turn == turns[i]
        sceneId == Field(turn.response, "scene_id")
    IN  (/\ Received(turn)
         /\ turn.visualUpdates = 1
         /\ ~turn.triggerUpdate
         /\ sceneId \in DOMAIN turn.before.sceneCache)
        => /\ MediaCalls(turn) = {}
           /\ turn.pc = "done"
           /\ turn.visual = [image |-> turn.before.sceneCache[sceneId].imageUrl,
                             hotspots |-> turn.before.sceneCache[sceneId].hotspots]

C3_Witness ==
  \E i \in DOMAIN turns :
    LET turn == turns[i]
        sceneId == Field(turn.response, "scene_id")
    IN  /\ turn.pc = "done"
        /\ turn.visualUpdates = 1
        /\ ~turn.triggerUpdate
        /\ sceneId \in DOMAIN turn.before.sceneCache
        /\ Len(turn.before.sceneCache[sceneId].hotspots) > 0
        /\ turn.visual.image = turn.before.sceneCache[sceneId].imageUrl

\* C4: every call of handleVisualUpdate with triggerUpdate true requests an
\* image for the visual_description of the turn's response, cached or not.
C4_ForcedRegeneration ==
  \A i \in DOMAIN turns :
    LET turn == turns[i]
    IN  (Received(turn) /\ turn.visualUpdates = 1 /\ turn.triggerUpdate)
        => \E k \in ImageCalls(turn) :
             turn.calls[k].argument = Field(turn.response, "visual_description")

C4_Witness ==
  \E i \in DOMAIN turns :
    LET turn == turns[i]
    IN  /\ turn.kind = "command"
        /\ Received(turn)
        /\ turn.visualUpdates = 1
        /\ turn.triggerUpdate
        /\ Field(turn.response, "scene_id") \in DOMAIN turn.before.sceneCache
        /\ ImageCalls(turn) # {}

\* C5: in a turn handleVisualUpdate is called if and only if the scene_id of
\* the response differs from the scene id shown before the turn or the
\* response asks for a visual update.
C5_VisualUpdateIffNeeded ==
  \A i \in DOMAIN turns :
    LET turn == turns[i]
    IN  (turn.kind = "command" /\ Received(turn))
        => (turn.visualUpdates = 1
              <=> (\/ Field(turn.response, "scene_id") # turn.before.currentSceneId
                   \/ Flag(turn.response, "trigger_visual_update")))

C5_Witness ==
  \E i \in DOMAIN turns :
    LET turn == turns[i]
    IN  /\ turn.kind = "command"
        /\ Received(turn)
        /\ Field(turn.response, "scene_id") # turn.before.currentSceneId
        /\ ~Flag(turn.response, "trigger_visual_update")
        /\ turn.visualUpdates = 1

\* C6: the inventory never holds an item twice; a turn that adds an item
\* already held, or removes an item not held, leaves the inventory as it was.
C6_InventoryIdempotence ==
  /\ NoDuplicates(gameState.inventory)
  /\ \A i \in DOMAIN turns :
       LET turn == turns[i]
           add == Field(turn.response, "inventory_add")
           remove == Field(turn.response, "inventory_remove")
           held == Range(turn.before.inventory)
       IN  (turn.kind = "command" /\ turn.pc = "done")
           => /\ (add \in held /\ ~Truthy(remove))
                   => gameState.inventory = turn.before.inventory
              /\ (Truthy(remove) /\ remove \notin held /\ ~Truthy(add))
                   => gameState.inventory = turn.before.inventory

C6_Witness ==
  \E i \in DOMAIN turns :
    LET turn == turns[i]
    IN  /\ turn.kind = "command"
        /\ turn.pc = "done"
        /\ Field(turn.response, "inventory_add") \in Range(turn.before.inventory)
        /\ gameState.inventory = turn.before.inventory

\* C7: a turn whose narrative request fails commits with the fallback: its
\* scene_id is the previous scene id (the sentinel when there is none), it asks
\* for no visual update, the command entry and one narrator entry with the
\* apology are appended, isLoading is false, and currentSceneId, imageUrl,
\* hotspots and inventory are what they were before the turn.
C7_NarrativeFailureKeepsState ==
  \A i \in DOMAIN turns :
    LET turn == turns[i]
        before == turn.before
    IN  (/\ turn.kind = "command"
         /\ Received(turn)
         /\ Field(turn.response, "narrative") = ApologyText)
        => /\ turn.pc = "done"
           /\ turn.response.scene_id =
                 (IF before.currentSceneId = Null THEN "unknown"
                  ELSE before.currentSceneId)
           /\ ~turn.triggerUpdate
           /\ gameState.history =
                 before.history \o <<LogEntry("command", "> " \o turn.fullCommand),
                                     LogEntry("narrator", ApologyText)>>
           /\ ~gameState.isLoading
           /\ gameState.currentSceneId = before.currentSceneId
           /\ gameState.imageUrl = before.imageUrl
           /\ gameState.hotspots = before.hotspots
           /\ gameState.inventory = before.inventory

\* C8: every response that a handler consumes has all the required fields.
C8_ConsumedResponsesComplete ==
  \A i \in DOMAIN turns :
    Received(turns[i]) => RequiredFields \subseteq DOMAIN turns[i].response

C10_StartGame ==
  \A i \in DOMAIN turns :
    LET turn == turns[i]
        response == turn.response
        sceneId == Field(response, "scene_id")
        description == Field(response, "visual_description")
    IN  turn.kind = "start"
        => /\ Received(turn)
                => \E k \in ImageCalls(turn) : turn.calls[k].argument = description
           /\ (/\ turn.pc = "done"
                /\ RequiredFields \subseteq DOMAIN response
                /\ Truthy(turn.image))
                => /\ gameState.currentSceneId = sceneId
                   /\ gameState.history = <<LogEntry("narrator", response.narrative)>>
                   /\ gameState.inventory =
                         (IF "inventory_add" \in DOMAIN response
                          THEN <<response.inventory_add>> ELSE <<>>)
                   /\ gameState.imageUrl = turn.image
                   /\ gameState.hotspots = turn.visual.hotspots
                   /\ DOMAIN gameState.sceneCache = {sceneId}
                   /\ gameState.sceneCache[sceneId].imageUrl = turn.image
                   /\ gameState.sceneCache[sceneId].hotspots = turn.visual.hotspots
                   /\ ~gameState.isLoading

C10_Witness ==
  \E i \in DOMAIN turns :
    LET turn == turns[i]
    IN  /\ turn.kind = "start"
        /\ turn.pc = "done"
        /\ RequiredFields \subseteq DOMAIN turn.response
        /\ ~turn.response.trigger_visual_update
        /\ Truthy(turn.image)
        /\ Len(turn.visual.hotspots) > 0
        /\ Len(gameState.inventory) > 0
        /\ gameState.sceneCache[turn.response.scene_id].hotspots = turn.visual.hotspots

\* the image request of the turn has returned without an image
ImageFailed(turn) ==
  /\ ImageCalls(turn) # {}
  /\ turn.pc # "awaitImage"
  /\ turn.image = Null

\* C11: when the image request of a turn fails, handleVisualUpdate returns
\* (null, []), the turn still commits, and after the commit imageUrl is what
\* it was before the turn and hotspots is the empty list.
C11_ImageFailureKeepsImage ==
  \A i \in DOMAIN turns :
    LET turn == turns[i]
    IN  ImageFailed(turn)
        => /\ turn.pc = "done"
           /\ turn.visual = [image |-> Null, hotspots |-> <<>>]
           /\ gameState.imageUrl = turn.before.imageUrl
           /\ gameState.hotspots = <<>>
           /\ ~gameState.isLoading

C11_Witness ==
  \E i \in DOMAIN turns :
    LET turn == turns[i]
    IN  /\ turn.kind = "command"
        /\ ImageFailed(turn)
        /\ turn.pc = "done"
        /\ Truthy(turn.before.imageUrl)
        /\ Len(turn.before.hotspots) > 0
        /\ gameState.imageUrl = turn.before.imageUrl
        /\ gameState.hotspots = <<>>

\* the turn has returned and its image request produced an image
FreshImage(turn) == turn.pc = "done" /\ Truthy(turn.image)

\* C12: after a turn whose image request produced an image, sceneCache holds
\* under the scene_id of the response exactly the artifact of that turn (id,
\* the new imageUrl, the hotspots of the turn, visualDescription and
\* interactables of the response), nothing of an earlier artifact of that key
\* is left, and every other key has the artifact it had before the turn.
C12_FreshArtifactReplaces ==
  \A i \in DOMAIN turns :
    LET turn == turns[i]
        response == turn.response
        sceneId == Field(response, "scene_id")
        old == turn.before.sceneCache
        new == gameState.sceneCache
    IN  FreshImage(turn)
        => /\ DOMAIN new = DOMAIN old \cup {sceneId}
           /\ new[sceneId] = [id |-> sceneId, imageUrl |-> turn.image,
                              hotspots |-> turn.visual.hotspots,
                              visualDescription |-> response.visual_description,
                              interactables |-> response.interactables]
           /\ \A k \in DOMAIN old \ {sceneId} : new[k] = old[k]

C12_Witness ==
  \E i \in DOMAIN turns :
    LET turn == turns[i]
        sceneId == Field(turn.response, "scene_id")
        old == turn.before.sceneCache
    IN  /\ turn.kind = "command"
        /\ FreshImage(turn)
        /\ sceneId \in DOMAIN old
        /\ Len(old[sceneId].hotspots) > 0
        /\ old[sceneId].interactables # turn.response.interactables
        /\ DOMAIN old # {sceneId}
        /\ gameState.sceneCache[sceneId].hotspots = <<>>

\* C13: a command turn in which no image was generated (no visual update
\* needed, a cache hit, or a failed image request) leaves sceneCache as it was
\* before the turn.
C13_NoImageNoCacheWrite ==
  \A i \in DOMAIN turns :
    LET turn == turns[i]
    IN  (turn.kind = "command" /\ turn.pc = "done" /\ turn.image = Null)
        => gameState.sceneCache = turn.before.sceneCache

\* the step is the final setGameState of a handler
Commits == \E i \in DOMAIN turns : InFlight(turns[i]) /\ turns'[i].pc = "done"

\* C14: sceneCache changes only in the step in which a turn commits, never
\* while a turn is in flight, and a key of sceneCache is never removed.
C14_CacheWrittenAtCommitOnly ==
  [][/\ gameState'.sceneCache # gameState.sceneCache => Commits
     /\ DOMAIN gameState.sceneCache \subseteq DOMAIN gameState'.sceneCache]_vars

\* a command turn went through both suspension points of handleVisualUpdate and
\* then added a second scene to the cache
C14_Witness ==
  \E i \in DOMAIN turns :
    LET turn == turns[i]
    IN  /\ turn.kind = "command"
        /\ turn.pc = "done"
        /\ \E k \in 1..Len(turn.calls) : turn.calls[k].service = "hotspots"
        /\ DOMAIN turn.before.sceneCache # {}
        /\ DOMAIN turn.before.sceneCache # DOMAIN gameState.sceneCache
        /\ DOMAIN turn.before.sceneCache \subseteq DOMAIN gameState.sceneCache

IsPrefix(s, t) == Len(s) <= Len(t) /\ SubSeq(t, 1, Len(s)) = s

CommandEntry(turn) == LogEntry("command", "> " \o turn.fullCommand)

\* C15: history only grows at its end: in every step the earlier history is a
\* prefix of the later one; an accepted executeCommand appends the command
\* entry of its input when it starts, its commit appends the narrator entry
\* with the narrative of the response, and with that the history is the one
\* before the turn followed by exactly these two entries.
C15_HistoryAppendOnly ==
  [][/\ IsPrefix(gameState.history, gameState'.history)
     /\ (started' # started /\ turns'[Len(turns')].kind = "command")
          => gameState'.history =
               Append(gameState.history, CommandEntry(turns'[Len(turns')]))
     /\ \A i \in DOMAIN turns :
          (turns[i].kind = "command" /\ InFlight(turns[i]) /\ turns'[i].pc = "done")
            => /\ gameState'.history =
                    Append(gameState.history,
                           LogEntry("narrator", Field(turns'[i].response, "narrative")))
               /\ gameState'.history =
                    turns[i].before.history
                      \o <<CommandEntry(turns[i]),
                           LogEntry("narrator", Field(turns'[i].response, "narrative"))>>]_vars

C15_Witness ==
  \E i \in DOMAIN turns :
    LET turn == turns[i]
    IN  /\ turn.kind = "command"
        /\ turn.pc = "done"
        /\ Len(turn.before.history) >= 3
        /\ gameState.history =
             turn.before.history
               \o <<CommandEntry(turn), LogEntry("narrator", turn.response.narrative)>>

\* C16: isPlaying changes only from false to true, in the step that starts the
\* game, and gameOver only from false to true, in a commit; neither changes
\* back, so each changes at most once.
C16_LifecycleFlagsMonotonic ==
  [][/\ gameState'.isPlaying # gameState.isPlaying
          => ~gameState.isPlaying /\ started' = started + 1
     /\ gameState'.gameOver # gameState.gameOver
          => ~gameState.gameOver /\ Commits]_vars

\* the game is over and a command submitted after that has been turned down
C16_Witness ==
  /\ gameState.isPlaying
  /\ gameState.gameOver
  /\ rendered.gameOver
  /\ ~gameState.isLoading
  /\ ignored

\* C17: executeCommand called when the game is not playing, or is over, or a
\* turn is loading, does nothing: only a call made while the game is playing,
\* not over and not loading starts a turn (sets gameState, calls a service).
C17_PreconditionViolatedIsNoOp ==
  [][(started' # started /\ turns'[Len(turns')].kind = "command")
       => /\ gameState.isPlaying
          /\ ~gameState.gameOver
          /\ ~gameState.isLoading]_vars

\* C18: in a turn the narrative request comes first; an image request is made
\* only after the narrative response has arrived; a detection request is made
\* only right after the image request of the same turn has produced an image,
\* for that image, with the interactables of the response, which are not empty.
C18_ServiceCallOrder ==
  \A i \in DOMAIN turns :
    LET turn == turns[i]
        calls == turn.calls
    IN  /\ calls[1].service = "narrative"
        /\ ~Received(turn) => Len(calls) = 1
        /\ \A k \in DOMAIN calls :
             /\ calls[k].service = "image"
                  => /\ k = 2
                     /\ calls[k].argument = Field(turn.response, "visual_description")
             /\ calls[k].service = "hotspots"
                  => /\ k = 3
                     /\ calls[2].service = "image"
                     /\ Truthy(turn.image)
                     /\ calls[k].argument = turn.image
                     /\ calls[k].items = turn.response.interactables
                     /\ Len(calls[k].items) > 0

C18_Witness ==
  \E i \in DOMAIN turns :
    LET turn == turns[i]
    IN  /\ turn.kind = "command"
        /\ turn.pc = "awaitHotspots"
        /\ Truthy(turn.before.imageUrl)
        /\ turn.calls[3] = DetectionCall(turn.image, <<"lantern">>)

\* C19: a speech request is issued only in the step in which a turn commits,
\* and never while playback is muted; the return of a speech request, with
\* audio or without, leaves gameState as it is.
C19_NarrationDecoupled ==
  [][/\ Len(narrations') > Len(narrations) => Commits /\ ~isMuted
     /\ Len(narrations') < Len(narrations) => gameState' = gameState]_vars

\* the hotspot lists of gameState: the one on display and those of the artifacts
StoredHotspotLists ==
  {gameState.hotspots}
    \cup {gameState.sceneCache[k].hotspots : k \in DOMAIN gameState.sceneCache}

NamedWithFourNumbers(h) ==
  /\ "name" \in DOMAIN h
  /\ Truthy(h.name)
  /\ "box" \in DOMAIN h
  /\ Len(h.box) = 4
  /\ \A j \in 1..4 : "number" \in DOMAIN h.box[j]

\* C20: every hotspot in gameState.hotspots or in an artifact of sceneCache has
\* a name and a box of exactly four numbers: the entries of a detection
\* response that lack a name or whose box is not such an array are discarded.
C20_StoredHotspotsWellFormed ==
  \A hotspots \in StoredHotspotLists :
    \A j \in 1..Len(hotspots) : NamedWithFourNumbers(hotspots[j])

AllNumbers(box) == \A j \in DOMAIN box : "number" \in DOMAIN box[j]

\* box is [ymin, xmin, ymax, xmax] in percent
OrderedInRange(box) ==
  /\ box[1].number <= box[3].number
  /\ box[2].number <= box[4].number
  /\ \A j \in 1..4 : box[j].number \in 0..100

\* C21: every hotspot in gameState.hotspots or in an artifact of sceneCache
\* whose box is four numbers has ymin <= ymax, xmin <= xmax and all four
\* within 0..100: detection entries that break this are not stored.
C21_StoredBoxesOrderedInRange ==
  \A hotspots \in StoredHotspotLists :
    \A j \in 1..Len(hotspots) :
      (Len(hotspots[j].box) = 4 /\ AllNumbers(hotspots[j].box))
        => OrderedInRange(hotspots[j].box)

IsBlank(pieces) == \A k \in DOMAIN pieces : pieces[k] = Blank

\* the strings of the inputs that are empty or white space only
BlankTexts == {Text(input) : input \in {c \in CustomInputs : IsBlank(c)}}

\* C22: the submit of an empty or white-space-only command is dropped before
\* anything happens: no turn is started for such an input (no state is set, no
\* service is called) and no command entry of it is in the history.
C22_BlankCommandDropped ==
  /\ \A i \in DOMAIN turns :
       turns[i].kind = "command" => turns[i].fullCommand \notin BlankTexts
  /\ \A k \in DOMAIN gameState.history :
       gameState.history[k] \notin {LogEntry("command", "> " \o b) : b \in BlankTexts}
  /\ dropped => IsBlank(customInput)

\* a white-space-only input has been submitted in a game that accepts commands
C22_Witness ==
  /\ dropped
  /\ customInput = <<Blank, Blank>>
  /\ gameState.isPlaying
  /\ ~gameState.isLoading
  /\ ~gameState.gameOver
  /\ rendered = gameState
  /\ turns = <<>>

\* the response names the scene shown before the turn and asks for no update
SameSceneNoTrigger(turn) ==
  /\ Field(turn.response, "scene_id") = turn.before.currentSceneId
  /\ ~Flag(turn.response, "trigger_visual_update")

\* C23: a command turn whose response names the scene shown before the turn
\* and does not ask for a visual update makes no image and no detection
\* request, and commits with the imageUrl and the hotspots of before the
\* turn, also when it adds or removes an inventory item.
C23_NoUpdateKeepsVisuals ==
  \A i \in DOMAIN turns :
    LET turn == turns[i]
    IN  (turn.kind = "command" /\ Received(turn) /\ SameSceneNoTrigger(turn))
        => /\ turn.pc = "done"
           /\ MediaCalls(turn) = {}
           /\ gameState.imageUrl = turn.before.imageUrl
           /\ gameState.hotspots = turn.before.hotspots

C23_Witness ==
  \E i \in DOMAIN turns :
    LET turn == turns[i]
    IN  /\ turn.kind = "command"
        /\ turn.pc = "done"
        /\ SameSceneNoTrigger(turn)
        /\ "inventory_add" \in DOMAIN turn.response
        /\ gameState.inventory # turn.before.inventory
        /\ Len(turn.before.hotspots) > 0
        /\ gameState.hotspots = turn.before.hotspots
        /\ gameState.imageUrl = turn.before.imageUrl

\* the responses a handler can receive
Responses ==
  WellFormed \cup ShapeViolating \cup {StartFallback}
    \cup {ActionFallback(c) : c \in SceneIds \cup {"", Null, "error_room", "unknown"}}

\* the images that can be generated from the description of a response that
\* names the scene
ImagesOf(sceneId) ==
  {generateSceneImage("inlineData", r.visual_description) :
     r \in {x \in Responses : x.scene_id = sceneId}}

\* C24: the image of every artifact of sceneCache that has one was generated
\* from the visual_description of a response that names the scene of its key:
\* no scene is cached with the image of another scene.
C24_CachedImageOfItsScene ==
  \A s \in DOMAIN gameState.sceneCache :
    Truthy(gameState.sceneCache[s].imageUrl)
      => gameState.sceneCache[s].imageUrl \in ImagesOf(s)

\* C25: every artifact of sceneCache has an imageUrl that is neither empty nor
\* absent: a scene whose image request failed is not cached.
C25_CachedArtifactsHaveImage ==
  \A s \in DOMAIN gameState.sceneCache :
    /\ "imageUrl" \in DOMAIN gameState.sceneCache[s]
    /\ Truthy(gameState.sceneCache[s].imageUrl)

\* C26: whenever no turn is in flight and an image is on display, sceneCache
\* has an artifact for currentSceneId, and its imageUrl and hotspots are the
\* ones on display.
C26_DisplayedSceneIsCached ==
  (~SomeInFlight /\ gameState.imageUrl # Null)
    => /\ gameState.currentSceneId \in DOMAIN gameState.sceneCache
       /\ gameState.sceneCache[gameState.currentSceneId].imageUrl = gameState.imageUrl
       /\ gameState.sceneCache[gameState.currentSceneId].hotspots = gameState.hotspots

\* a command turn has moved the game to a second scene with detected hotspots
C26_Witness ==
  /\ ~SomeInFlight
  /\ Truthy(gameState.imageUrl)
  /\ Len(gameState.hotspots) > 0
  /\ Cardinality(DOMAIN gameState.sceneCache) > 1
  /\ gameState.sceneCache[gameState.currentSceneId].hotspots = gameState.hotspots
  /\ \E i \in DOMAIN turns : turns[i].kind = "command" /\ turns[i].pc = "done"
====
